---------------------------- MODULE Spec2Model ----------------------------
(***************************************************************************)
(* Radiological_Reporting_Agents: the report scraper                       *)
(* (download_reports.py) and the template builder (extract_templates.py).  *)
(*                                                                         *)
(* Text is modelled as a sequence of symbols.  A symbol stands for one     *)
(* maximal piece of text the regular expressions of the program treat as   *)
(* a unit: a section name, a keyword of the boilerplate denylist, a        *)
(* punctuation character, one whitespace character, or an ordinary word.   *)
(* The accented section name of the program is written "Resultat" and the *)
(* letter e-acute of the type labels is the symbol "e'".                   *)
(***************************************************************************)
EXTENDS Integers, Sequences, FiniteSets, TLC

VARIABLES
    \* extract_report_content: the line loop and the final filter
    lines, idx, current_section, section_content, content, result, pcSeg,
    \* extract_templates: the training file, the loaded reports, the groups,
    \* the templates built and the files written
    training_file, reports, report_types, type_order, templates, template_files,
    returned, pcTpl,
    \* the type classification of extract_report_content
    breadcrumb_items, title_element, title, report_type, pcCls,
    \* download_mri_reports: the futures, what as_completed has yielded,
    \* the collected reports
    future, yielded, all_reports, pcMain

varsSeg == <<lines, idx, current_section, section_content, content, result, pcSeg>>

varsTpl == <<training_file, reports, report_types, type_order, templates,
             template_files, returned, pcTpl>>

varsCls == <<breadcrumb_items, title_element, title, report_type, pcCls>>

varsDl == <<future, yielded, all_reports, pcMain>>

vars == <<varsSeg, varsTpl, varsCls, varsDl>>

\* ------------------------------------------------------------------------
\* Bounds of the model
\* ------------------------------------------------------------------------

\* the longest page, in lines, of the general family of inputs
MaxLines == 3

\* the most reports of the general family of training files
MaxReports == 3

\* the most active breadcrumb items of a page
MaxCrumbs == 2

\* the number of URLs of the batch (the program lists 42)
NumUrls == 5

\* ------------------------------------------------------------------------
\* Text primitives
\* ------------------------------------------------------------------------

None == "None"

SP == " "

\* the regular-expression items that are not literals: \s* and $
SpStar == "\\s*"

EndAnchor == "$"

\* str.lower() and re.IGNORECASE, on the symbols that have a case variant
Lower(x) ==
    CASE x = "Indication" -> "indication"
      [] x = "INDICATION" -> "indication"
      [] x = "Technique"  -> "technique"
      [] x = "Resultat"   -> "resultat"
      [] x = "Conclusion" -> "conclusion"
      [] x = "CONCLUSION" -> "conclusion"
      [] x = "Accueil"    -> "accueil"
      [] x = "Contact"    -> "contact"
      [] x = "CONTACT"    -> "contact"
      [] x = "Rad"        -> "rad"
      [] x = "Rap"        -> "rap"
      [] x = "Blog"       -> "blog"
      [] OTHER            -> x

SymEq(p, x, ignorecase) ==
    IF ignorecase THEN Lower(p) = Lower(x) ELSE p = x

\* str.strip(): leading and trailing whitespace removed
RECURSIVE LStrip(_)
LStrip(s) ==
    IF s # <<>> /\ Head(s) = SP THEN LStrip(Tail(s)) ELSE s

RECURSIVE RStrip(_)
RStrip(s) ==
    IF s # <<>> /\ s[Len(s)] = SP THEN RStrip(SubSeq(s, 1, Len(s) - 1)) ELSE s

Strip(s) == RStrip(LStrip(s))

\* len(str.split()): the number of maximal runs of non-whitespace
RECURSIVE WordCount(_)
WordCount(s) ==
    IF s = <<>> THEN 0
    ELSE IF Head(s) = SP THEN WordCount(Tail(s))
    ELSE IF Len(s) = 1 \/ s[2] = SP THEN 1 + WordCount(Tail(s))
    ELSE WordCount(Tail(s))

\* " ".join(fragments)
RECURSIVE Join(_)
Join(frags) ==
    IF frags = <<>> THEN <<>>
    ELSE IF Len(frags) = 1 THEN frags[1]
    ELSE frags[1] \o <<SP>> \o Join(Tail(frags))

\* the first position at or after i that holds no whitespace
RECURSIVE SkipSpaces(_, _)
SkipSpaces(s, i) ==
    IF i <= Len(s) /\ s[i] = SP THEN SkipSpaces(s, i + 1) ELSE i

\* re.match of the item sequence pat at position i of s: the position after
\* the match, or 0 when there is none.  \s* is greedy; no pattern of the
\* program follows \s* by a whitespace literal, so greedy needs no backtracking.
RECURSIVE MatchEnd(_, _, _, _)
MatchEnd(pat, s, i, ignorecase) ==
    IF pat = <<>> THEN i
    ELSE IF Head(pat) = SpStar
        THEN MatchEnd(Tail(pat), s, SkipSpaces(s, i), ignorecase)
    ELSE IF Head(pat) = EndAnchor
        THEN IF i = Len(s) + 1 THEN i ELSE 0
    ELSE IF i <= Len(s) /\ SymEq(Head(pat), s[i], ignorecase)
        THEN MatchEnd(Tail(pat), s, i + 1, ignorecase)
    ELSE 0

\* re.search(pat, s): a match at some position
Search(pat, s, ignorecase) ==
    \E i \in 1..(Len(s) + 1) : MatchEnd(pat, s, i, ignorecase) # 0

\* ------------------------------------------------------------------------
\* extract_report_content: sections, header pattern, denylist
\* ------------------------------------------------------------------------

section_order == <<"Indication", "Technique", "Resultat", "Conclusion">>

Sections == {section_order[i] : i \in 1..Len(section_order)}

\* a string of the shape \d{2}/\d{2}/\d{4}
DATE == "01/02/2024"

\* the alternatives of the metadata pattern of lines 115 and 123
Denylist ==
    { <<"Rad", SP, "Rap">>,
      <<"Accueil">>,
      <<"Comptes", SP, "rendus">>,
      <<"Blog">>,
      <<"Contact">>,
      <<"Nicolas", SP, "Villard">>,
      <<DATE>>,
      <<"Copier", SpStar, "directement", SpStar, "le", SpStar, "CR", SpStar,
        "dans", SpStar, "le", SpStar, "presse-papier">>,
      <<"Copier", SpStar, "tout", SpStar, "le", SpStar, "CRCopier">> }

\* re.search(r"Rad Rap|Accueil|...", text): no flags, so case-sensitive
MatchesDenylist(text) ==
    \E p \in Denylist : Search(p, text, FALSE)

\* rf"^{section}\s*:\s*|^#{section}\s*$" with re.IGNORECASE, at the start
\* of the line: the position after the match, or 0
HeaderMatchEnd(section, line) ==
    LET e1 == MatchEnd(<<section, SpStar, ":", SpStar>>, line, 1, TRUE)
    IN  IF e1 # 0 THEN e1
        ELSE MatchEnd(<<"#", section, SpStar, EndAnchor>>, line, 1, TRUE)

\* the for/break loop of lines 103-106: the first section, in order, whose
\* header pattern matches the line
MatchedSection(line) ==
    IF \E i \in 1..Len(section_order) : HeaderMatchEnd(section_order[i], line) # 0
    THEN section_order[CHOOSE i \in 1..Len(section_order) :
            /\ HeaderMatchEnd(section_order[i], line) # 0
            /\ \A j \in 1..(i - 1) : HeaderMatchEnd(section_order[j], line) = 0]
    ELSE None

\* StripHeader without the re.sub: the header stays in the line
StripHeaderKeep(section, line) == line

\* line 110: re.sub of the header pattern by "", then strip()
StripHeader(section, line) ==
    Strip(SubSeq(line, HeaderMatchEnd(section, line), Len(line)))

\* DenylistLine with the metadata test left out
DenylistLineNever(line) == FALSE

\* line 115: the line looks like page metadata
DenylistLine(line) == MatchesDenylist(line)

\* one iteration of the loop of lines 97-118 on the state st =
\* [cur: current_section, acc: section_content]
ScanStep(st, rawline) ==
    LET line == Strip(rawline)
        ms   == MatchedSection(line)
    IN  IF line = <<>> THEN st
        ELSE IF ms # None
            THEN LET rest == StripHeader(ms, line)
                 IN  [cur |-> ms,
                      acc |-> IF rest # <<>>
                              THEN [st.acc EXCEPT ![ms] = Append(@, rest)]
                              ELSE st.acc]
        ELSE IF st.cur # None
            THEN IF ~DenylistLine(line)
                 THEN [cur |-> st.cur,
                       acc |-> [st.acc EXCEPT ![st.cur] = Append(@, line)]]
                 ELSE [cur |-> None, acc |-> st.acc]
        ELSE st

\* Meaningful without the word count and the metadata test
MeaningfulAny(text) == text # <<>>

\* line 123: the condition under which a section's text is kept
Meaningful(text) ==
    text # <<>> /\ WordCount(text) > 2 /\ ~MatchesDenylist(text)

\* lines 122-126: the text kept for a section
PopulateSection(frags) ==
    LET text == Strip(Join(frags))
    IN  IF Meaningful(text) THEN text ELSE <<>>

PopulateContent(acc) == [s \in Sections |-> PopulateSection(acc[s])]

\* ReturnValue without the test of line 129
ReturnValueAlwaysReport(cont) == "report"

\* lines 129-135: None when no section has content, else the report
ReturnValue(cont) ==
    IF \A s \in Sections : cont[s] = <<>> THEN "None" ELSE "report"

EmptyAcc == [s \in Sections |-> <<>>]

StartState == [cur |-> None, acc |-> EmptyAcc]

\* the whole of lines 92-126 on a list of lines
RECURSIVE ScanAll(_, _)
ScanAll(st, ls) ==
    IF ls = <<>> THEN st ELSE ScanAll(ScanStep(st, Head(ls)), Tail(ls))

SegmentContent(ls) == PopulateContent(ScanAll(StartState, ls).acc)

\* ------------------------------------------------------------------------
\* Inputs of the segmenter
\* ------------------------------------------------------------------------

\* "<Section>: <text>"
HeaderLine(section, text) == <<section, ":", SP>> \o text

\* section texts without whitespace at either end: three words, three words
\* with a double blank, four words one of them boilerplate, one word, nothing
Texts ==
    { <<"a", SP, "b", SP, "c">>,
      <<"c", SP, SP, "b", SP, "a">>,
      <<"a", SP, "Contact", SP, "b", SP, "c">>,
      <<"a">>,
      <<>> }

\* the section texts that carry whitespace at an end
PaddedTexts == { <<"b", SP, "c", SP, "a", SP>> }

\* a page of the four headers in order
FourHeaders(x, y, z, w) ==
    << HeaderLine("Indication", x), HeaderLine("Technique", y),
       HeaderLine("Resultat", z), HeaderLine("Conclusion", w) >>

\* the lines of the general family of pages
LineSet ==
    { HeaderLine("Indication", <<"a", SP, "b", SP, "c">>),
      <<"indication", ":", "b", SP, "c", SP, "a">>,
      <<"#", "Technique">>,
      <<"CONCLUSION", SP, ":">>,
      <<"Resultat", ":", SP, "Contact", SP, "a", SP, "b">>,
      <<"a", SP, "b">>,
      <<SP, "c", SP>>,
      <<"Technique", SP, "a">>,
      <<"Accueil">>,
      <<"accueil">>,
      <<"a", SP, DATE>>,
      <<"CONTACT">>,
      <<SP>> }

RECURSIVE SeqsUpTo(_, _)
SeqsUpTo(S, n) ==
    IF n = 0 THEN {<<>>}
    ELSE LET shorter == SeqsUpTo(S, n - 1)
         IN  shorter \cup {Append(q, x) : q \in {r \in shorter : Len(r) = n - 1}, x \in S}

Pages ==
    SeqsUpTo(LineSet, MaxLines)
        \cup {FourHeaders(x, y, z, w) : x \in Texts \cup PaddedTexts, y \in Texts,
                                       z \in Texts, w \in Texts \cup PaddedTexts}

\* ------------------------------------------------------------------------
\* The segmenter as a state machine
\* ------------------------------------------------------------------------

StartSeg ==
    /\ lines \in Pages
    /\ idx = 0
    /\ current_section = None
    /\ section_content = EmptyAcc
    /\ content = [s \in Sections |-> <<>>]
    /\ result = "pending"
    /\ pcSeg = "scan"

\* one iteration of "for line in lines"
ScanLine ==
    /\ pcSeg = "scan"
    /\ idx < Len(lines)
    /\ LET st == ScanStep([cur |-> current_section, acc |-> section_content],
                          lines[idx + 1])
       IN  /\ current_section' = st.cur
           /\ section_content' = st.acc
    /\ idx' = idx + 1
    /\ UNCHANGED <<lines, content, result, pcSeg>>
    /\ UNCHANGED <<varsTpl, varsCls, varsDl>>

\* the loop of lines 121-126 and the return of lines 129-135
Populate ==
    /\ pcSeg = "scan"
    /\ idx = Len(lines)
    /\ content' = PopulateContent(section_content)
    /\ result' = ReturnValue(PopulateContent(section_content))
    /\ pcSeg' = "done"
    /\ UNCHANGED <<lines, idx, current_section, section_content>>
    /\ UNCHANGED <<varsTpl, varsCls, varsDl>>

NextSeg == ScanLine \/ Populate

\* ------------------------------------------------------------------------
\* extract_templates.py: sanitize_filename
\* ------------------------------------------------------------------------

\* A type string is a sequence of characters.  "e'" is the letter e-acute,
\* "o/" a letter NFKD does not decompose, "acute" the combining accent.
LowerCaseLetters ==
    {"a", "b", "c", "d", "e", "f", "g", "h", "i", "j", "k", "l", "m",
     "n", "o", "p", "q", "r", "s", "t", "u", "v", "w", "x", "y", "z"}

UpperCaseLetters == {"K", "L", "M", "N", "O", "P", "R", "S", "T", "U"}

Digits == {"0", "1", "2", "3", "4", "5", "6", "7", "8", "9"}

\* str.lower() on one character
LowerChar(c) ==
    CASE c = "K" -> "k" [] c = "L" -> "l" [] c = "M" -> "m" [] c = "N" -> "n"
      [] c = "O" -> "o" [] c = "P" -> "p" [] c = "R" -> "r" [] c = "S" -> "s"
      [] c = "T" -> "t" [] c = "U" -> "u" [] OTHER -> c

LowerStr(s) == [i \in 1..Len(s) |-> LowerChar(s[i])]

\* unicodedata.normalize('NFKD', c)
Nfkd(c) == IF c = "e'" THEN <<"e", "acute">> ELSE <<c>>

IsAscii(c) == c \notin {"e'", "o/", "acute"}

\* normalize('NFKD', s).encode('ASCII', 'ignore').decode('ASCII')
RECURSIVE AsciiFold(_)
AsciiFold(s) ==
    IF s = <<>> THEN <<>>
    ELSE SelectSeq(Nfkd(Head(s)), IsAscii) \o AsciiFold(Tail(s))

\* valid_chars = "-_.() " + ascii_letters + digits
valid_chars ==
    {"-", "_", ".", "(", ")", SP} \cup LowerCaseLetters \cup UpperCaseLetters \cup Digits

sanitize_filename(filename) ==
    LET folded == AsciiFold(filename)
    IN  [i \in 1..Len(folded) |->
            IF folded[i] \in valid_chars THEN folded[i] ELSE "_"]

\* ------------------------------------------------------------------------
\* extract_templates.py: reports, groups, templates
\* ------------------------------------------------------------------------

Unknown == <<"U", "n", "k", "n", "o", "w", "n">>

MSK == <<"M", "S", "K">>

PelvisFeminin ==
    <<"P", "e", "l", "v", "i", "s", SP, "(", "f", "e'", "m", "i", "n", "i", "n", ")">>

critical_sections == <<"Indication", "Technique", "Resultat", "Conclusion">>

\* A report is a JSON object: a function whose domain is the set of fields
\* it has.  Its content is a JSON object too, kept as the sequence of its
\* <<key, value>> pairs; a value is "" or "txt".
FullContent ==
    << <<"Indication", "txt">>, <<"Technique", "txt">>,
       <<"Resultat", "txt">>, <<"Conclusion", "txt">> >>

EmptyResultat ==
    << <<"Indication", "txt">>, <<"Technique", "txt">>,
       <<"Resultat", "">>, <<"Conclusion", "txt">> >>

Report(type, cont) == [f \in {"type", "content"} |-> IF f = "type" THEN type ELSE cont]

ReportNoType(cont) == [f \in {"content"} |-> cont]

ReportNoContent(type) == [f \in {"type"} |-> type]

ReportSet ==
    { Report(MSK, FullContent),
      Report(MSK, << <<"Autre", "txt">>, <<"Resultat", "">> >>),
      Report(<<SP>> \o MSK, << <<"Indication", "txt">> >>),
      Report(PelvisFeminin, FullContent),
      Report(Unknown, <<>>),
      Report(<<"T", "1", "/", "T", "2", "o/">>, FullContent),
      ReportNoType(FullContent),
      ReportNoContent(MSK) }

Repeat(x, n) == [i \in 1..n |-> x]

\* ten MSK reports, seven of them with a non-empty Resultat
TenReportsSevenResultat ==
    Repeat(Report(MSK, FullContent), 7) \o Repeat(Report(MSK, EmptyResultat), 3)

\* ten MSK reports, two of them with the keys Resultat and Autre
TenReportsTwoResultat ==
    Repeat(Report(MSK, << <<"Indication", "txt">> >>), 8)
        \o Repeat(Report(MSK, << <<"Resultat", "txt">>, <<"Autre", "txt">> >>), 2)

\* what Knowledge/training_reports.json may hold
TrainingFiles ==
    { [state |-> "missing", data |-> <<>>], [state |-> "invalid", data |-> <<>>] }
        \cup { [state |-> "json", data |-> rs] :
                  rs \in SeqsUpTo(ReportSet, MaxReports)
                            \cup {TenReportsSevenResultat, TenReportsTwoResultat} }

\* report.get("type", "Unknown").strip()
ReportType(report) ==
    Strip(IF "type" \in DOMAIN report THEN report["type"] ELSE Unknown)

\* report.get("content", {}).keys()
ContentKeys(report) ==
    IF "content" \in DOMAIN report
    THEN [i \in 1..Len(report["content"]) |-> report["content"][i][1]]
    ELSE <<>>

Range(q) == {q[i] : i \in 1..Len(q)}

\* the keys of a dict, in insertion order: q without its repetitions
Dedupe(q) ==
    LET first == SelectSeq([i \in 1..Len(q) |-> i],
                           LAMBDA i : \A j \in 1..(i - 1) : q[j] # q[i])
    IN  [k \in 1..Len(first) |-> q[first[k]]]

\* lines 37-43: the types in order of first appearance, and each type's reports
GroupOrder(rs) == Dedupe([i \in 1..Len(rs) |-> ReportType(rs[i])])

GroupOf(rs, type) == SelectSeq(rs, LAMBDA r : ReportType(r) = type)

\* lines 52-55: section_counts, its keys in insertion order and its counts
RECURSIVE AllKeys(_)
AllKeys(type_reports) ==
    IF type_reports = <<>> THEN <<>>
    ELSE ContentKeys(Head(type_reports)) \o AllKeys(Tail(type_reports))

SectionCount(type_reports, section) ==
    Cardinality({i \in 1..Len(type_reports) :
                    section \in Range(ContentKeys(type_reports[i]))})

\* line 58: threshold = len(type_reports) * 0.3, in tenths
ThresholdTenths == 3

\* line 59: count >= len(type_reports) * tenths / 10
AboveThreshold(type_reports, tenths) ==
    SelectSeq(Dedupe(AllKeys(type_reports)),
              LAMBDA k : 10 * SectionCount(type_reports, k) >= Len(type_reports) * tenths)

\* lines 61-64: the critical sections the list lacks are appended
RECURSIVE ForceSections(_, _)
ForceSections(common, critical) ==
    IF critical = <<>> THEN common
    ELSE ForceSections(IF Head(critical) \in Range(common) THEN common
                       ELSE Append(common, Head(critical)),
                       Tail(critical))

\* CommonSections without the loop of lines 62-64
CommonSectionsUnforced(type_reports, tenths) ==
    AboveThreshold(type_reports, tenths)

\* lines 59-64: common_sections
CommonSections(type_reports, tenths) ==
    ForceSections(AboveThreshold(type_reports, tenths), critical_sections)

\* lines 67-71
Template(rtype, type_reports, tenths) ==
    [type     |-> rtype,
     title    |-> "",
     sections |-> [k \in Range(CommonSections(type_reports, tenths)) |-> ""]]

\* lines 74-75: the sanitized part of the file name
FileToken(rtype) == sanitize_filename(LowerStr(rtype))

StartTpl ==
    /\ training_file \in TrainingFiles
    /\ reports = <<>>
    /\ report_types = <<>>
    /\ type_order = <<>>
    /\ templates = <<>>
    /\ template_files = <<>>
    /\ returned = "running"
    /\ pcTpl = "load"

\* lines 25-34: the file is missing or is no JSON, and [] is returned
LoadFails ==
    /\ pcTpl = "load"
    /\ training_file.state \in {"missing", "invalid"}
    /\ returned' = "empty"
    /\ pcTpl' = "done"
    /\ UNCHANGED <<training_file, reports, report_types, type_order, templates,
                   template_files>>
    /\ UNCHANGED <<varsSeg, varsCls, varsDl>>

\* lines 25-28
LoadReports ==
    /\ pcTpl = "load"
    /\ training_file.state = "json"
    /\ reports' = training_file.data
    /\ pcTpl' = "group"
    /\ UNCHANGED <<training_file, report_types, type_order, templates,
                   template_files, returned>>
    /\ UNCHANGED <<varsSeg, varsCls, varsDl>>

\* lines 37-43: the grouping loop
GroupReports ==
    /\ pcTpl = "group"
    /\ type_order' = GroupOrder(reports)
    /\ report_types' = [i \in 1..Len(GroupOrder(reports)) |->
                            GroupOf(reports, GroupOrder(reports)[i])]
    /\ pcTpl' = "build"
    /\ UNCHANGED <<training_file, reports, templates, template_files, returned>>
    /\ UNCHANGED <<varsSeg, varsCls, varsDl>>

\* lines 50-82: one iteration of the loop over the groups; the write of the
\* file succeeds or raises, and a raise is logged and the loop goes on
BuildTemplate ==
    /\ pcTpl = "build"
    /\ Len(templates) < Len(type_order)
    /\ LET i == Len(templates) + 1
       IN  /\ templates' = Append(templates,
                    Template(type_order[i], report_types[i], ThresholdTenths))
           /\ \E saved \in BOOLEAN :
                 template_files' =
                    IF saved THEN Append(template_files, FileToken(type_order[i]))
                    ELSE template_files
    /\ UNCHANGED <<training_file, reports, report_types, type_order, returned, pcTpl>>
    /\ UNCHANGED <<varsSeg, varsCls, varsDl>>

\* line 84
ReturnTemplates ==
    /\ pcTpl = "build"
    /\ Len(templates) = Len(type_order)
    /\ returned' = "template_files"
    /\ pcTpl' = "done"
    /\ UNCHANGED <<training_file, reports, report_types, type_order, templates,
                   template_files>>
    /\ UNCHANGED <<varsSeg, varsCls, varsDl>>

NextTpl == LoadFails \/ LoadReports \/ GroupReports \/ BuildTemplate \/ ReturnTemplates

\* ------------------------------------------------------------------------
\* extract_report_content: title and report type (lines 31-68)
\* ------------------------------------------------------------------------

\* Words of a title or of a breadcrumb are symbols, written without their
\* accents: cerebrale, cranienne, feminin, epaule.  A type label is one
\* symbol.
TypeUnknown == "Unknown"

possible_types ==
    <<"MSK", "Abdomen", "Pelvis (feminin)", "Pelvis (masculin)", "Neuro-ORL">>

\* str.lower() on the symbols of a title that have capitals
LowerWord(x) ==
    CASE x = "Neuro"   -> "neuro"
      [] x = "Abdomen" -> "abdomen"
      [] x = "Pelvis"  -> "pelvis"
      [] x = "Genou"   -> "genou"
      [] x = "Rad"     -> "rad"
      [] x = "Rap"     -> "rap"
      [] x = "IRM"     -> "irm"
      [] OTHER         -> x

LowerTitle(t) == [i \in 1..Len(t) |-> LowerWord(t[i])]

\* "word" in text
Contains(word, text) == \E i \in 1..Len(text) : text[i] = word

\* "rad rap" in title.lower()
ContainsRadRap(t) ==
    \E i \in 1..(Len(t) - 2) :
        LowerTitle(t)[i] = "rad" /\ t[i + 1] = SP /\ LowerTitle(t)[i + 2] = "rap"

\* lines 32-36: the text of the first h1, h2 or title element, stripped;
\* replaced by "IRM Report <n>" when it names the site or there is no element.
\* element is <<>> when the page has none and <<text>> otherwise.
TitleOf(element) ==
    IF element = <<>> THEN <<"IRM", SP, "Report", SP, "n">>
    ELSE IF ContainsRadRap(Strip(element[1])) THEN <<"IRM", SP, "Report", SP, "n">>
    ELSE Strip(element[1])

\* lines 45-49: the first of possible_types found in the item's text
TypeInItem(type_text) ==
    IF \E k \in 1..Len(possible_types) : Contains(possible_types[k], type_text)
    THEN possible_types[CHOOSE k \in 1..Len(possible_types) :
            /\ Contains(possible_types[k], type_text)
            /\ \A j \in 1..(k - 1) : ~Contains(possible_types[j], type_text)]
    ELSE TypeUnknown

\* lines 42-51: the type of the first item that has one
RECURSIVE TypeFromBreadcrumb(_)
TypeFromBreadcrumb(items) ==
    IF items = <<>> THEN TypeUnknown
    ELSE IF TypeInItem(Head(items)) # TypeUnknown THEN TypeInItem(Head(items))
    ELSE TypeFromBreadcrumb(Tail(items))

\* PelvisType with masculin tested before feminin
PelvisTypeMasculinFirst(title_lower) ==
    IF Contains("masculin", title_lower) THEN "Pelvis (masculin)"
    ELSE "Pelvis (feminin)"

\* lines 60-65
PelvisType(title_lower) ==
    IF Contains("feminin", title_lower) THEN "Pelvis (feminin)"
    ELSE IF Contains("masculin", title_lower) THEN "Pelvis (masculin)"
    ELSE "Pelvis (feminin)"

\* lines 54-67
TypeFromTitle(t) ==
    LET title_lower == LowerTitle(t)
    IN  IF \/ Contains("cerebrale", title_lower)
           \/ Contains("cranienne", title_lower)
           \/ Contains("neuro", title_lower)
            THEN "Neuro-ORL"
        ELSE IF Contains("abdomen", title_lower) \/ Contains("abdominale", title_lower)
            THEN "Abdomen"
        ELSE IF Contains("pelvis", title_lower) \/ Contains("pelvien", title_lower)
            THEN PelvisType(title_lower)
        ELSE IF \/ Contains("musculo", title_lower)
                \/ Contains("squelettique", title_lower)
                \/ Contains("genou", title_lower)
                \/ Contains("epaule", title_lower)
            THEN "MSK"
        ELSE TypeUnknown

\* the texts of the active breadcrumb items of a page
CrumbTexts ==
    { <<"MSK">>,
      <<"Abdomen", SP, "MSK">>,
      <<"Pelvis (masculin)">>,
      <<"IRM", SP, "Neuro-ORL">>,
      <<"Pelvis (feminin)">>,
      <<"msk">>,
      <<"Accueil">> }

\* the texts of the title element of a page
TitleTexts ==
    { <<"IRM", SP, "cerebrale">>,
      <<SP, "Neuro", SP, "abdomen">>,
      <<"IRM", SP, "Abdomen">>,
      <<"abdominale", SP, "pelvien">>,
      <<"IRM", SP, "Pelvis">>,
      <<"pelvien", SP, "masculin">>,
      <<"pelvis", SP, "feminin", SP, "masculin">>,
      <<"pelvis", SP, "Genou">>,
      <<"IRM", SP, "epaule">>,
      <<"masculin">>,
      <<"IRM">>,
      <<"Rad", SP, "Rap", SP, "cranienne">> }

StartCls ==
    /\ breadcrumb_items \in SeqsUpTo(CrumbTexts, MaxCrumbs)
    /\ title_element \in {<<t>> : t \in TitleTexts} \cup {<<>>}
    /\ title = <<>>
    /\ report_type = TypeUnknown
    /\ pcCls = "title"

\* lines 32-36
ExtractTitle ==
    /\ pcCls = "title"
    /\ title' = TitleOf(title_element)
    /\ pcCls' = "breadcrumb"
    /\ UNCHANGED <<breadcrumb_items, title_element, report_type>>
    /\ UNCHANGED <<varsSeg, varsTpl, varsDl>>

\* lines 39-51
CheckBreadcrumb ==
    /\ pcCls = "breadcrumb"
    /\ report_type' = TypeFromBreadcrumb(breadcrumb_items)
    /\ pcCls' = IF TypeFromBreadcrumb(breadcrumb_items) = TypeUnknown
                THEN "fallback" ELSE "done"
    /\ UNCHANGED <<breadcrumb_items, title_element, title>>
    /\ UNCHANGED <<varsSeg, varsTpl, varsDl>>

\* lines 53-68
TitleFallback ==
    /\ pcCls = "fallback"
    /\ report_type' = TypeFromTitle(title)
    /\ pcCls' = "done"
    /\ UNCHANGED <<breadcrumb_items, title_element, title>>
    /\ UNCHANGED <<varsSeg, varsTpl, varsDl>>

NextCls == ExtractTitle \/ CheckBreadcrumb \/ TitleFallback

\* ------------------------------------------------------------------------
\* download_mri_reports (lines 184-208)
\* ------------------------------------------------------------------------

\* ThreadPoolExecutor(max_workers=4)
max_workers == 4

Urls == 1..NumUrls

\* what extract_report_content does for one URL
Outcomes == {"report", "null", "raised"}

Running == {u \in Urls : future[u] = "running"}

Queued == {u \in Urls : future[u] = "queued"}

Finished == {u \in Urls : future[u] \in Outcomes}

StartDl ==
    /\ future = [u \in Urls |-> "unsubmitted"]
    /\ yielded = [u \in Urls |-> 0]
    /\ all_reports = <<>>
    /\ pcMain = "submit"

\* line 186: executor.submit for the next URL of the list
Submit ==
    /\ pcMain = "submit"
    /\ \E u \in Urls :
          /\ future[u] = "unsubmitted"
          /\ \A v \in Urls : v < u => future[v] # "unsubmitted"
          /\ future' = [future EXCEPT ![u] = "queued"]
          /\ pcMain' = IF u = NumUrls THEN "collect" ELSE "submit"
    /\ UNCHANGED <<yielded, all_reports>>
    /\ UNCHANGED <<varsSeg, varsTpl, varsCls>>

\* a worker of the pool takes the oldest queued call
WorkerStart ==
    /\ Cardinality(Running) < max_workers
    /\ \E u \in Queued :
          /\ \A v \in Queued : u <= v
          /\ future' = [future EXCEPT ![u] = "running"]
    /\ UNCHANGED <<yielded, all_reports, pcMain>>
    /\ UNCHANGED <<varsSeg, varsTpl, varsCls>>

\* the call returns a report, returns None or raises
WorkerFinish ==
    /\ \E u \in Running, o \in Outcomes :
          future' = [future EXCEPT ![u] = o]
    /\ UNCHANGED <<yielded, all_reports, pcMain>>
    /\ UNCHANGED <<varsSeg, varsTpl, varsCls>>

\* AfterResult without the except clause: a raise leaves the loop
AfterResultNoExcept(o) == IF o = "raised" THEN "aborted" ELSE "collect"

\* lines 189-197: where the loop is after future.result() of outcome o:
\* a raise is caught and logged, and the loop goes on
AfterResult(o) == "collect"

\* lines 187-198: one iteration of "for future in as_completed(...)"
Collect ==
    /\ pcMain = "collect"
    /\ \E u \in Finished :
          /\ yielded[u] = 0
          /\ yielded' = [yielded EXCEPT ![u] = @ + 1]
          /\ all_reports' = IF future[u] = "report" THEN Append(all_reports, u)
                            ELSE all_reports
          /\ pcMain' = AfterResult(future[u])
    /\ UNCHANGED future
    /\ UNCHANGED <<varsSeg, varsTpl, varsCls>>

\* lines 200-208: as_completed is exhausted
FinishDownload ==
    /\ pcMain = "collect"
    /\ \A u \in Urls : yielded[u] > 0
    /\ pcMain' = IF all_reports = <<>> THEN "ValueError" ELSE "returned"
    /\ UNCHANGED <<future, yielded, all_reports>>
    /\ UNCHANGED <<varsSeg, varsTpl, varsCls>>

NextDl == Submit \/ WorkerStart \/ WorkerFinish \/ Collect \/ FinishDownload

\* ------------------------------------------------------------------------
\* Specifications: one per entry point
\* ------------------------------------------------------------------------

IdleSeg ==
    /\ lines = <<>>
    /\ idx = 0
    /\ current_section = None
    /\ section_content = EmptyAcc
    /\ content = [s \in Sections |-> <<>>]
    /\ result = "pending"
    /\ pcSeg = "idle"

IdleTpl ==
    /\ training_file = [state |-> "missing", data |-> <<>>]
    /\ reports = <<>>
    /\ report_types = <<>>
    /\ type_order = <<>>
    /\ templates = <<>>
    /\ template_files = <<>>
    /\ returned = "running"
    /\ pcTpl = "idle"

IdleCls ==
    /\ breadcrumb_items = <<>>
    /\ title_element = <<>>
    /\ title = <<>>
    /\ report_type = TypeUnknown
    /\ pcCls = "idle"

IdleDl ==
    /\ future = [u \in Urls |-> "unsubmitted"]
    /\ yielded = [u \in Urls |-> 0]
    /\ all_reports = <<>>
    /\ pcMain = "idle"

InitSeg == StartSeg /\ IdleTpl /\ IdleCls /\ IdleDl

InitTemplates == StartTpl /\ IdleSeg /\ IdleCls /\ IdleDl

InitCls == StartCls /\ IdleSeg /\ IdleTpl /\ IdleDl

InitDl == StartDl /\ IdleSeg /\ IdleTpl /\ IdleCls

\* the line loop and the final filter of extract_report_content
SpecSeg == InitSeg /\ [][NextSeg]_vars

\* extract_templates
SpecTpl == InitTemplates /\ [][NextTpl]_vars

\* the title and type of extract_report_content
SpecCls == InitCls /\ [][NextCls]_vars

\* download_mri_reports
SpecDl == InitDl /\ [][NextDl]_vars

Init == InitSeg \/ InitTemplates \/ InitCls \/ InitDl

Next == NextSeg \/ NextTpl \/ NextCls \/ NextDl

Spec == Init /\ [][Next]_vars

\* ------------------------------------------------------------------------
\* Properties of the segmenter
\* ------------------------------------------------------------------------

\* the line the loop is about to scan, stripped as line 98 strips it
NextLine == Strip(lines[idx + 1])

ScanStepTaken == pcSeg = "scan" /\ idx < Len(lines) /\ idx' = idx + 1

\* the mapping {Indication: x, Technique: y, Resultat: z, Conclusion: w}
Mapping(x, y, z, w) ==
    [s \in Sections |->
        CASE s = "Indication" -> x
          [] s = "Technique"  -> y
          [] s = "Resultat"   -> z
          [] s = "Conclusion" -> w]

AllTexts == Texts \cup PaddedTexts

\* C1 as stated: for the four header lines "Indication: X", "Technique: Y",
\* "Resultat: Z", "Conclusion: W" in order, for every choice of the texts, the
\* content mapping is exactly {Indication: X, Technique: Y, Resultat: Z,
\* Conclusion: W}.
C1_ExactMappingForEveryText ==
    (pcSeg = "done" /\ Len(lines) = 4) =>
      \A x \in AllTexts, y \in AllTexts, z \in AllTexts, w \in AllTexts :
        lines = FourHeaders(x, y, z, w) => content = Mapping(x, y, z, w)

\* what a section of the four-header page comes back as: its text with the
\* whitespace at its ends removed when that has three words or more and
\* no boilerplate in it, and the empty text otherwise
C1_Expected(text) ==
    LET t == Strip(text)
    IN  IF WordCount(t) >= 3 /\ \A i \in 1..Len(t) : t[i] \notin {"Contact", "Accueil", DATE}
        THEN t ELSE <<>>

\* C1 amended: for the four header lines in order, each section holds its own
\* text, trimmed and otherwise unchanged, when that text has at least three
\* words and no denylist match, and the empty string otherwise; the call
\* returns None exactly when all four come back empty.
C1_FourHeadersMapping ==
    (pcSeg = "done" /\ Len(lines) = 4) =>
      \A x \in AllTexts, y \in AllTexts, z \in AllTexts, w \in AllTexts :
        lines = FourHeaders(x, y, z, w)
            => /\ content = Mapping(C1_Expected(x), C1_Expected(y),
                                    C1_Expected(z), C1_Expected(w))
               /\ result = "None" <=> \A s \in Sections : content[s] = <<>>

C1_Witness ==
    /\ pcSeg = "done"
    /\ result = "report"
    /\ lines = FourHeaders(<<"b", SP, "c", SP, "a", SP>>, <<"c", SP, SP, "b", SP, "a">>,
                           <<"a">>, <<"a", SP, "b", SP, "c">>)
    /\ content = Mapping(<<"b", SP, "c", SP, "a">>, <<"c", SP, SP, "b", SP, "a">>,
                         <<>>, <<"a", SP, "b", SP, "c">>)

\* a line that is no section header and matches the denylist as written
BoilerplateLine(line) ==
    MatchedSection(line) = None /\ MatchesDenylist(line)

\* C2: a boilerplate line (no header, matching the denylist) scanned while a
\* section is open is not accumulated and closes the section
\* (current_section becomes null); while no section is open a line that is
\* no header is accumulated nowhere; and no section's output text holds a
\* denylist match.
C2_BoilerplateClosesSection ==
    /\ [][(ScanStepTaken /\ current_section # None /\ BoilerplateLine(NextLine))
            => (current_section' = None /\ section_content' = section_content)]_vars
    /\ [][(ScanStepTaken /\ current_section = None /\ MatchedSection(NextLine) = None)
            => (current_section' = None /\ section_content' = section_content)]_vars
    /\ [](pcSeg = "done" => \A s \in Sections : ~MatchesDenylist(content[s]))

C2_Witness ==
    /\ pcSeg = "done"
    /\ Len(lines) = 3
    /\ MatchedSection(Strip(lines[1])) = "Indication"
    /\ BoilerplateLine(Strip(lines[2]))
    /\ lines[3] = <<"a", SP, "b">>
    /\ current_section = None
    /\ content["Indication"] = <<"a", SP, "b", SP, "c">>

NoHeaderLine ==
    \A i \in 1..Len(lines) : MatchedSection(Strip(lines[i])) = None

\* C3: when no line of the page is a section header nothing is ever
\* accumulated, all four sections resolve to empty and the call returns None.
C3_NoHeaderNoContent ==
    NoHeaderLine =>
        /\ current_section = None
        /\ section_content = EmptyAcc
        /\ pcSeg = "done" =>
              /\ \A s \in Sections : content[s] = <<>>
              /\ result = "None"

C3_Witness ==
    /\ pcSeg = "done"
    /\ NoHeaderLine
    /\ Len(lines) = 3
    /\ lines[1] = <<"Technique", SP, "a">>
    /\ lines[2] = <<"a", SP, "b">>
    /\ result = "None"

\* C6: running the segmenter again on the single line "S: T", T the output
\* text of section S, gives T for S and empty for the other three sections.
C6_Idempotent ==
    pcSeg = "done" =>
        \A s \in Sections :
            SegmentContent(<<HeaderLine(s, content[s])>>)
                = [t \in Sections |-> IF t = s THEN content[s] ELSE <<>>]

C6_Witness ==
    /\ pcSeg = "done"
    /\ \E s \in Sections :
          /\ Len(section_content[s]) >= 2
          /\ content[s] # <<>>
          /\ SegmentContent(<<HeaderLine(s, content[s])>>)[s] = content[s]

\* re.search of the denylist with re.IGNORECASE
MatchesDenylistIgnoreCase(text) ==
    \E p \in Denylist : Search(p, text, TRUE)

\* a line that differs from section's header "<section>:" at most in case
HeaderInAnyCase(section, line) ==
    /\ Len(line) >= 2
    /\ Lower(line[1]) = Lower(section)
    /\ line[2] = ":"

\* C9: header matching and denylist matching are both case-insensitive: a
\* header in any letter case opens its section, and a line that is no header
\* and matches a denylist pattern in any letter case is discarded and closes
\* the open section, and no output text holds such a match.
C9_CaseInsensitive ==
    /\ [][\A s \in Sections : (ScanStepTaken /\ HeaderInAnyCase(s, NextLine))
            => current_section' = s]_vars
    /\ [][(ScanStepTaken /\ current_section # None /\ MatchedSection(NextLine) = None
              /\ MatchesDenylistIgnoreCase(NextLine))
            => (current_section' = None /\ section_content' = section_content)]_vars
    /\ [](pcSeg = "done" => \A s \in Sections : ~MatchesDenylistIgnoreCase(content[s]))

\* ------------------------------------------------------------------------
\* Properties of the template builder
\* ------------------------------------------------------------------------

CanonicalKeys == {"Indication", "Technique", "Resultat", "Conclusion"}

\* a template with the four canonical keys, every value empty and no title
StableSchema(template) ==
    /\ CanonicalKeys \subseteq DOMAIN template.sections
    /\ \A k \in DOMAIN template.sections : template.sections[k] = ""
    /\ template.title = ""

Fractions == 0..10

\* C4: for every type group and every threshold the template's sections
\* contain the four canonical keys, whatever the number of reports that hold
\* a section; every section value is the empty string and the title is blank.
C4_CanonicalSectionsForced ==
    /\ \A i \in 1..Len(templates) : StableSchema(templates[i])
    /\ \A i \in 1..Len(report_types), tenths \in Fractions :
          StableSchema(Template(type_order[i], report_types[i], tenths))

C4_Witness ==
    /\ pcTpl = "done"
    /\ reports = TenReportsTwoResultat
    /\ Len(templates) = 1
    /\ Cardinality({i \in 1..Len(reports) :
            \E j \in 1..Len(reports[i]["content"]) :
                reports[i]["content"][j][1] = "Resultat"}) = 2
    /\ DOMAIN templates[1].sections = CanonicalKeys

SafeFilenameChars ==
    {"-", "_", "."} \cup LowerCaseLetters \cup UpperCaseLetters \cup Digits

\* C5: the file name token made from a type string holds only ASCII letters,
\* digits, underscore, hyphen or period.
C5_FilenameTokenSafe ==
    \A i \in 1..Len(template_files) :
        \A j \in 1..Len(template_files[i]) :
            template_files[i][j] \in SafeFilenameChars

Incomplete(report) ==
    "type" \notin DOMAIN report \/ "content" \notin DOMAIN report

\* C10: when some report of the collection lacks type or content, no
\* template comes from a group that holds such a report, and the run ends
\* with an error.
C10_MalformedInputFailsFast ==
    (\E i \in 1..Len(reports) : Incomplete(reports[i])) =>
        /\ \A i \in 1..Len(templates) :
              \A j \in 1..Len(report_types[i]) : ~Incomplete(report_types[i][j])
        /\ pcTpl = "done" => returned = "error"

\* ------------------------------------------------------------------------
\* Properties of the type classification
\* ------------------------------------------------------------------------

KnownTypes ==
    {"MSK", "Abdomen", "Pelvis (feminin)", "Pelvis (masculin)", "Neuro-ORL"}

Labelled(item) == \E t \in KnownTypes : Contains(t, item)

TitleHas(word) ==
    \E i \in 1..Len(title) : LowerWord(title[i]) = word

\* what the title rules give, in their order
C7_TitleRule ==
    IF TitleHas("neuro") \/ TitleHas("cerebrale") \/ TitleHas("cranienne")
        THEN "Neuro-ORL"
    ELSE IF TitleHas("abdomen") \/ TitleHas("abdominale")
        THEN "Abdomen"
    ELSE IF TitleHas("pelvis") \/ TitleHas("pelvien")
        THEN IF TitleHas("masculin") /\ ~TitleHas("feminin")
             THEN "Pelvis (masculin)" ELSE "Pelvis (feminin)"
    ELSE IF \/ TitleHas("musculo") \/ TitleHas("squelettique")
            \/ TitleHas("genou") \/ TitleHas("epaule")
        THEN "MSK"
    ELSE "Unknown"

\* C7: the first rule that matches sets the type: a known label in the
\* active breadcrumb (the first item that has one) wins over the title;
\* otherwise the title keywords in the order Neuro-ORL, Abdomen, Pelvis
\* (masculin only with masculin and without feminin), MSK; otherwise
\* "Unknown".  The type is a known label or "Unknown".
C7_FirstMatchingRuleWins ==
    pcCls = "done" =>
        /\ report_type \in KnownTypes \cup {"Unknown"}
        /\ IF \E i \in 1..Len(breadcrumb_items) : Labelled(breadcrumb_items[i])
           THEN LET first == CHOOSE i \in 1..Len(breadcrumb_items) :
                                /\ Labelled(breadcrumb_items[i])
                                /\ \A j \in 1..(i - 1) : ~Labelled(breadcrumb_items[j])
                IN  Contains(report_type, breadcrumb_items[first])
           ELSE report_type = C7_TitleRule

C7_Witness ==
    /\ pcCls = "done"
    /\ breadcrumb_items = << <<"msk">>, <<"Pelvis (masculin)">> >>
    /\ title = <<"IRM", SP, "cerebrale">>
    /\ report_type = "Pelvis (masculin)"

\* ------------------------------------------------------------------------
\* Properties of the batch download
\* ------------------------------------------------------------------------

Occurrences(q, x) == Cardinality({i \in 1..Len(q) : q[i] = x})

\* C8: a failing item never aborts the rest: no outcome is consumed twice,
\* and when download_mri_reports has ended, by return or by its final
\* ValueError, every URL's outcome was consumed exactly once and the list
\* holds one report for each URL that returned a report and none for the
\* others, in every completion order.
C8_EveryOutcomeCollectedOnce ==
    /\ \A u \in Urls : yielded[u] <= 1
    /\ \A u \in Urls : Occurrences(all_reports, u) <= yielded[u]
    /\ pcMain \notin {"idle", "submit", "collect"} =>
          \A u \in Urls :
              /\ future[u] \in Outcomes
              /\ yielded[u] = 1
              /\ Occurrences(all_reports, u) = IF future[u] = "report" THEN 1 ELSE 0

C8_Witness ==
    /\ pcMain = "returned"
    /\ \E u \in Urls : future[u] = "raised"
    /\ \E u \in Urls : future[u] = "null"
    /\ Len(all_reports) >= 2
    /\ all_reports[1] > all_reports[2]
    /\ \A u \in Urls : yielded[u] = 1

=============================================================================
